---- MODULE Spec2Model ----
(***************************************************************************)
(* A model of monai/inferers/inferer.py (Inferer, RegularInferer,          *)
(* SlidingWindowInferer) and monai/networks/layers/simplelayers.py         *)
(* (SkipConnection, Flatten, GaussianFilter).                              *)
(*                                                                         *)
(* Tensors are modelled by their shape and, where a claim is about values, *)
(* by their data in row-major order.  A Python call either returns a value *)
(* or raises: every operator that models a call yields a record with a     *)
(* field `raised` ("none" when the call returned).                         *)
(***************************************************************************)
EXTENDS Integers, Sequences, FiniteSets, TLC

VARIABLES
    self,      \* the SlidingWindowInferer instance: the attributes stored on it
    ref,       \* TRUE when the constructor returned, so a caller holds the instance
    ctor,      \* the constructor call made: its arguments and what it raised
    last,      \* the most recent __call__ on an inferer and everything it did
    flat,      \* the most recent Flatten.forward: its input and outcome
    skip,      \* the SkipConnection module and its most recent forward
    gf,        \* the GaussianFilter module: kernels, padding, conv_n
    fwd        \* the GaussianFilter.forward call in progress, or the last one made

inferer == <<self, ref, ctor, last>>
gauss   == <<gf, fwd>>
layers  == <<flat, skip, gauss>>
vars    == <<inferer, layers>>

(***************************************************************************)
(* Bounds of the model.                                                    *)
(***************************************************************************)
MaxSize == 3        \* largest extent of a spatial axis, and of a window axis
MaxDim  == 2        \* largest extent of an axis of a tensor given to a layer

(***************************************************************************)
(* Small helpers on sequences of integers.                                 *)
(***************************************************************************)
RECURSIVE Prod(_)
Prod(s) == IF s = <<>> THEN 1 ELSE Head(s) * Prod(Tail(s))

Max(a, b) == IF a >= b THEN a ELSE b
Min(a, b) == IF a <= b THEN a ELSE b
CeilDiv(a, b) == (a + b - 1) \div b

SeqsUpTo(S, n) == UNION {[1..k -> S] : k \in 0..n}

(***************************************************************************)
(* Values handed to the inferers.                                          *)
(***************************************************************************)
\* A Python value given as roi_size: its type and, for a sequence, its items.
PyList(items)  == [kind |-> "list", items |-> items]
PyTuple(items) == [kind |-> "tuple", items |-> items]
RoiItems == SeqsUpTo(0..MaxSize, 2) \cup {<<-1>>, <<2, -1>>}
RoiArgs ==
    {PyList(s) : s \in RoiItems}
        \cup {PyTuple(s) : s \in {<<>>, <<0>>, <<2>>, <<2, 2>>}}
        \cup {[kind |-> "int", items |-> <<2>>],
              [kind |-> "NoneType", items |-> <<>>],
              [kind |-> "ndarray", items |-> <<2, 2>>]}

SwBatchSizes == {1, 2}
Overlaps     == {25, 50}                \* overlap, in hundredths
BlendModes   == {"constant", "gaussian"}

\* Input tensors [B, C, s1] and [B, C, s1, s2]; val names the data symbolically.
Tensor(shape) == [shape |-> shape, val |-> <<"x">>]
AllInputs ==
    {[shape |-> <<b, 1>> \o sp, val |-> <<v>>] :
        b \in {1, 2}, sp \in (SeqsUpTo(1..MaxSize, 2) \ {<<>>}), v \in {"x", "y"}}
Inputs ==
    {Tensor(<<1, 1>> \o sp) : sp \in (SeqsUpTo(1..MaxSize, 2) \ {<<>>})}
        \cup {Tensor(<<2, 1, MaxSize>>), Tensor(<<2, 1, 2, MaxSize>>)}

NoTensor == [shape |-> <<>>, val |-> <<>>]

\* The callables given as `network`.
Networks == {"conv", "ident", "pool", "fail"}

Spatial(x) == SubSeq(x.shape, 3, Len(x.shape))

\* network(x): what the callable returns or raises, and the argument it saw.
Network(m, x) ==
    CASE m = "conv" ->      \* keeps the spatial size, 2 output channels
            [ret |-> [shape |-> <<x.shape[1], 2>> \o Spatial(x), val |-> <<m>> \o x.val],
             raised |-> "none"]
      [] m = "ident" ->     \* returns its argument
            [ret |-> x, raised |-> "none"]
      [] m = "pool" ->      \* a classifier: [B, 2]
            [ret |-> [shape |-> <<x.shape[1], 2>>, val |-> <<m>> \o x.val],
             raised |-> "none"]
      [] OTHER ->           \* "fail": the model raises
            [ret |-> NoTensor, raised |-> "ModelError"]

\* The networks whose output has the spatial size of their input.
KeepsSpatialSize(m) ==
    \A x \in AllInputs :
        /\ Network(m, x).raised = "none"
        /\ Len(Network(m, x).ret.shape) = Len(x.shape)
        /\ Spatial(Network(m, x).ret) = Spatial(x)

(***************************************************************************)
(* RegularInferer.__call__                                                 *)
(***************************************************************************)
\* A plausible slip: the model is applied to its own output.
RegularInferer_call_twice(inputs, network) ==
    LET r1 == Network(network, inputs)
        r2 == Network(network, r1.ret)
    IN  IF r1.raised # "none"
        THEN [ret |-> r1.ret, raised |-> r1.raised,
              netcalls |-> <<[net |-> network, arg |-> inputs]>>, swargs |-> <<>>]
        ELSE [ret |-> r2.ret, raised |-> r2.raised,
              netcalls |-> <<[net |-> network, arg |-> inputs],
                             [net |-> network, arg |-> r1.ret]>>, swargs |-> <<>>]

RegularInferer_call(inputs, network) ==
    LET r == Network(network, inputs)
    IN  [ret |-> r.ret, raised |-> r.raised,
         netcalls |-> <<[net |-> network, arg |-> inputs]>>,
         swargs |-> <<>>]

(***************************************************************************)
(* sliding_window_inference (monai/inferers/utils.py)                      *)
(***************************************************************************)
\* Where the windows start along one axis of extent n for a window of extent r.
ScanStarts(n, r, overlap) ==
    LET interval == Max(1, (r * (100 - overlap)) \div 100)
        num      == CeilDiv(n - r, interval) + 1
    IN  {Min(k * interval, n - r) : k \in 0..(num - 1)}

RECURSIVE NumWindows(_, _, _)
NumWindows(size, roi, overlap) ==
    IF size = <<>> THEN 1
    ELSE Cardinality(ScanStarts(Head(size), Head(roi), overlap))
            * NumWindows(Tail(size), Tail(roi), overlap)

\* args is the positional argument tuple
\* (inputs, roi_size, sw_batch_size, predictor, overlap, blend_mode).
sliding_window_inference(args) ==
    LET inputs     == args[1]
        roi        == args[2].items
        sw_batch   == args[3]
        predictor  == args[4]
        overlap    == args[5]
        blend_mode == args[6]
        size       == Spatial(inputs)
        none       == [ret |-> NoTensor, netcalls |-> <<>>, swargs |-> args]
    IN  IF Len(roi) # Len(size) \/ \E i \in 1..Len(roi) : roi[i] <= 0
        THEN [raised |-> "ConfigurationError"] @@ none
        ELSE
        LET padded  == [i \in 1..Len(size) |-> Max(size[i], roi[i])]
            total   == inputs.shape[1] * NumWindows(padded, roi, overlap)
            batches == CeilDiv(total, sw_batch)
            window(k) == [shape |-> <<Min(sw_batch, total - (k - 1) * sw_batch),
                                      inputs.shape[2]>> \o roi,
                          val |-> inputs.val]
            first   == Network(predictor, window(1))
            calls(n) == [k \in 1..n |-> [net |-> predictor, arg |-> window(k)]]
        IN  IF first.raised # "none"
            THEN [raised |-> first.raised, ret |-> NoTensor,
                  netcalls |-> calls(1), swargs |-> args]
            ELSE IF Len(first.ret.shape) # Len(size) + 2 \/ Spatial(first.ret) # roi
            THEN [raised |-> "RuntimeError", ret |-> NoTensor,
                  netcalls |-> calls(batches), swargs |-> args]
            ELSE [raised |-> "none",
                  ret |-> [shape |-> <<inputs.shape[1], first.ret.shape[2]>> \o size,
                           val |-> <<"blend", blend_mode, predictor>> \o inputs.val],
                  netcalls |-> calls(batches), swargs |-> args]

(***************************************************************************)
(* SlidingWindowInferer                                                    *)
(***************************************************************************)
NoRoi == [kind |-> "unset", items |-> <<>>]
NewSelf == [attrs |-> {}, roi_size |-> NoRoi, sw_batch_size |-> 0,
            overlap |-> 0, blend_mode |-> "unset"]

isinstance(v, types) == v.kind \in types

SetAttr(obj, name, value) ==
    [[obj EXCEPT !.attrs = @ \cup {name}] EXCEPT ![name] = value]

\* A plausible slip: the attributes are stored before the argument is checked.
SlidingWindowInferer_init_late_assert(roi_size, sw_batch_size, overlap, blend_mode) ==
    LET s1 == SetAttr(NewSelf, "roi_size", roi_size)
        s2 == SetAttr(s1, "sw_batch_size", sw_batch_size)
        s3 == SetAttr(s2, "overlap", overlap)
        s4 == SetAttr(s3, "blend_mode", blend_mode)
    IN  IF ~isinstance(roi_size, {"list", "tuple"})
        THEN [self |-> s4, raised |-> "AssertionError"]
        ELSE [self |-> s4, raised |-> "none"]

\* A plausible slip: only a tuple is accepted.
SlidingWindowInferer_init_tuple_only(roi_size, sw_batch_size, overlap, blend_mode) ==
    IF ~isinstance(roi_size, {"tuple"})
    THEN [self |-> NewSelf, raised |-> "AssertionError"]
    ELSE [self |-> SetAttr(SetAttr(SetAttr(SetAttr(NewSelf,
                      "roi_size", roi_size), "sw_batch_size", sw_batch_size),
                      "overlap", overlap), "blend_mode", blend_mode),
          raised |-> "none"]

SlidingWindowInferer_init(roi_size, sw_batch_size, overlap, blend_mode) ==
    IF ~isinstance(roi_size, {"list", "tuple"})
    THEN [self |-> NewSelf, raised |-> "AssertionError"]
    ELSE LET s1 == SetAttr(NewSelf, "roi_size", roi_size)
             s2 == SetAttr(s1, "sw_batch_size", sw_batch_size)
             s3 == SetAttr(s2, "overlap", overlap)
             s4 == SetAttr(s3, "blend_mode", blend_mode)
         IN  [self |-> s4, raised |-> "none"]

\* A plausible slip: overlap and sw_batch_size change places in the call.
SlidingWindowInferer_call_swapped(obj, inputs, network) ==
    sliding_window_inference(
        <<inputs, obj.roi_size, obj.overlap, network, obj.sw_batch_size, obj.blend_mode>>)

\* A plausible slip: the prediction of one window is returned, nothing is blended.
SlidingWindowInferer_call_one_window(obj, inputs, network) ==
    LET r == sliding_window_inference(
                <<inputs, obj.roi_size, obj.sw_batch_size, network, obj.overlap,
                  obj.blend_mode>>)
    IN  IF r.raised # "none" THEN r
        ELSE [r EXCEPT !.ret = Network(network, r.netcalls[1].arg).ret]

SlidingWindowInferer_call(obj, inputs, network) ==
    sliding_window_inference(
        <<inputs, obj.roi_size, obj.sw_batch_size, network, obj.overlap, obj.blend_mode>>)

(***************************************************************************)
(* The inferers as a state machine.                                        *)
(***************************************************************************)
NoCtor == [called |-> FALSE, roi_size |-> NoRoi, sw_batch_size |-> 0,
           overlap |-> 0, blend_mode |-> "unset", raised |-> "none"]
NoCall == [op |-> "none", inputs |-> NoTensor, network |-> "none", ret |-> NoTensor,
           raised |-> "none", netcalls |-> <<>>, swargs |-> <<>>, before |-> NewSelf]

InitInferer ==
    /\ self = NewSelf
    /\ ref = FALSE
    /\ ctor = NoCtor
    /\ last = NoCall

\* SlidingWindowInferer(roi_size, sw_batch_size, overlap, blend_mode)
Construct ==
    \E roi \in RoiArgs, sw \in SwBatchSizes, ov \in Overlaps, bm \in BlendModes :
        LET r == SlidingWindowInferer_init(roi, sw, ov, bm)
        IN  /\ ~ctor.called
            /\ self' = r.self
            /\ ref' = (r.raised = "none")
            /\ ctor' = [called |-> TRUE, roi_size |-> roi, sw_batch_size |-> sw,
                        overlap |-> ov, blend_mode |-> bm, raised |-> r.raised]
            /\ UNCHANGED <<last, layers>>

\* inferer(inputs, network) on the SlidingWindowInferer instance
SlidingCall ==
    \E x \in Inputs, m \in Networks :
        LET r == SlidingWindowInferer_call(self, x, m)
        IN  /\ ref
            /\ last' = [op |-> "sliding", inputs |-> x, network |-> m, ret |-> r.ret,
                        raised |-> r.raised, netcalls |-> r.netcalls,
                        swargs |-> r.swargs, before |-> self]
            /\ UNCHANGED <<self, ref, ctor, layers>>

\* inferer(inputs, network) on a RegularInferer instance
RegularCall ==
    \E x \in AllInputs, m \in Networks :
        LET r == RegularInferer_call(x, m)
        IN  /\ last' = [op |-> "regular", inputs |-> x, network |-> m, ret |-> r.ret,
                        raised |-> r.raised, netcalls |-> r.netcalls,
                        swargs |-> r.swargs, before |-> self]
            /\ UNCHANGED <<self, ref, ctor, layers>>

(***************************************************************************)
(* torch.Tensor.view, as Flatten uses it.  A tensor is its shape and its   *)
(* strides; view never copies, so it fails when the requested shape cannot *)
(* be laid over the strides.                                                *)
(***************************************************************************)
\* The strides of a freshly allocated (contiguous) tensor of this shape.
RECURSIVE ContiguousStride(_)
ContiguousStride(shape) ==
    IF shape = <<>> THEN <<>>
    ELSE LET rest == ContiguousStride(Tail(shape))
         IN  IF rest = <<>> THEN <<1>>
             ELSE <<Max(shape[2], 1) * rest[1]>> \o rest

Perms(n) == {p \in [1..n -> 1..n] : \A i, j \in 1..n : p[i] = p[j] => i = j}

\* x.permute(p) of a contiguous tensor: the same storage, axes reordered.
Permuted(shape, p) ==
    [shape  |-> [i \in 1..Len(shape) |-> shape[p[i]]],
     stride |-> [i \in 1..Len(shape) |-> ContiguousStride(shape)[p[i]]]]

FlatInputs ==
    {Permuted(shape, p) : shape \in {sh \in SeqsUpTo(0..MaxDim, 3) : Len(sh) = 3},
                          p \in Perms(3)}
        \cup {Permuted(shape, p) : shape \in {sh \in SeqsUpTo(0..MaxDim, 3) : Len(sh) = 2},
                                   p \in Perms(2)}
        \cup {Permuted(shape, p) : shape \in {sh \in SeqsUpTo(0..MaxDim, 3) : Len(sh) < 2},
                                   p \in {<<1>>}}

NoStrided == [shape |-> <<>>, stride |-> <<>>]

\* The inner loop of the stride computation: view axes are assigned to the
\* current chunk of mergeable tensor axes.
RECURSIVE ViewChunk(_, _)
ViewChunk(newshape, st) ==
    IF st.view_d >= 1 /\ (st.vnumel < st.tnumel \/ newshape[st.view_d] = 1)
    THEN ViewChunk(newshape,
            [st EXCEPT !.newstride[st.view_d] = st.vnumel * st.base,
                       !.vnumel = @ * newshape[st.view_d],
                       !.view_d = @ - 1])
    ELSE st

\* The outer loop, over the tensor's axes from the last to the first.
RECURSIVE ViewStride(_, _, _, _, _)
ViewStride(oldshape, oldstride, newshape, td, st) ==
    IF td = 0 \/ ~st.ok THEN st
    ELSE LET tn == st.tnumel * oldshape[td]
         IN  IF td = 1 \/ (oldshape[td - 1] # 1 /\ oldstride[td - 1] # tn * st.base)
             THEN LET w == ViewChunk(newshape, [st EXCEPT !.tnumel = tn])
                  IN  IF w.vnumel # tn THEN [w EXCEPT !.ok = FALSE]
                      ELSE IF td > 1
                      THEN ViewStride(oldshape, oldstride, newshape, td - 1,
                              [w EXCEPT !.base = oldstride[td - 1],
                                        !.tnumel = 1, !.vnumel = 1])
                      ELSE w
             ELSE ViewStride(oldshape, oldstride, newshape, td - 1,
                             [st EXCEPT !.tnumel = tn])

\* x.view(first, -1): the size of the second axis is inferred from the number
\* of elements, and the new strides must fit the old ones.
View2(x, first) ==
    LET numel == Prod(x.shape)
        bad   == [ret |-> NoStrided, raised |-> "RuntimeError"]
    IN  IF ~(numel = first \/ (first > 0 /\ numel % first = 0)) THEN bad
        ELSE IF first = 0 THEN bad     \* the inferred size is ambiguous
        ELSE
        LET newshape == <<first, numel \div first>>
            start == [view_d |-> 2, base |-> x.stride[Len(x.stride)], tnumel |-> 1,
                      vnumel |-> 1, newstride |-> <<0, 0>>, ok |-> TRUE]
            st == ViewStride(x.shape, x.stride, newshape, Len(x.shape), start)
        IN  IF numel = 0
            THEN [ret |-> [shape |-> newshape,
                           stride |-> IF x.shape = newshape THEN x.stride
                                      ELSE ContiguousStride(newshape)],
                  raised |-> "none"]
            ELSE IF st.ok /\ st.view_d = 0
            THEN [ret |-> [shape |-> newshape, stride |-> st.newstride],
                  raised |-> "none"]
            ELSE bad

(***************************************************************************)
(* Flatten.forward                                                         *)
(***************************************************************************)
Flatten_forward(x) ==
    IF Len(x.shape) = 0
    THEN [ret |-> NoStrided, raised |-> "IndexError"]      \* x.size(0)
    ELSE View2(x, x.shape[1])

NoFlat == [called |-> FALSE, x |-> NoStrided, ret |-> NoStrided, raised |-> "none"]

FlattenForward ==
    \E x \in FlatInputs :
        LET r == Flatten_forward(x)
        IN  /\ flat' = [called |-> TRUE, x |-> x, ret |-> r.ret, raised |-> r.raised]
            /\ UNCHANGED <<inferer, skip, gauss>>

(***************************************************************************)
(* torch.cat of two tensors, as SkipConnection uses it.  A tensor is its   *)
(* shape and its elements in row-major order.                              *)
(***************************************************************************)
\* The multi-index of the k-th element (k from 0) of a tensor of this shape.
RECURSIVE Unravel(_, _)
Unravel(k, shape) ==
    IF shape = <<>> THEN <<>>
    ELSE LET inner == Prod(Tail(shape))
         IN  <<k \div inner>> \o Unravel(k % inner, Tail(shape))

RECURSIVE Ravel(_, _)
Ravel(idx, shape) ==
    IF shape = <<>> THEN 0
    ELSE Head(idx) * Prod(Tail(shape)) + Ravel(Tail(idx), Tail(shape))

At(t, idx) == t.data[Ravel(idx, t.shape) + 1]

NoData == [shape |-> <<>>, data |-> <<>>]

\* torch.cat([a, b], dim)
Cat(a, b, dim) ==
    LET rank == Len(a.shape)
        d    == IF dim < 0 THEN dim + rank + 1 ELSE dim + 1     \* the axis, from 1
        shape == [a.shape EXCEPT ![d] = a.shape[d] + b.shape[d]]
    IN  IF rank = 0 \/ Len(b.shape) = 0
        THEN [ret |-> NoData, raised |-> "RuntimeError"]
        ELSE IF a.shape = <<0>> THEN [ret |-> b, raised |-> "none"]
        ELSE IF b.shape = <<0>> THEN [ret |-> a, raised |-> "none"]
        ELSE IF d < 1 \/ d > rank
        THEN [ret |-> NoData, raised |-> "IndexError"]
        ELSE IF Len(b.shape) # rank
                \/ \E i \in 1..rank : i # d /\ a.shape[i] # b.shape[i]
        THEN [ret |-> NoData, raised |-> "RuntimeError"]
        ELSE [ret |-> [shape |-> shape,
                       data |-> [k \in 1..Prod(shape) |->
                            LET idx == Unravel(k - 1, shape)
                            IN  IF idx[d] < a.shape[d] THEN At(a, idx)
                                ELSE At(b, [idx EXCEPT ![d] = @ - a.shape[d]])]],
              raised |-> "none"]

\* The wrapped submodules.
Submodules == {"ident", "neg", "one_channel", "sum_last", "fail"}

Filled(shape, v) == [shape |-> shape, data |-> [k \in 1..Prod(shape) |-> v]]

Submodule(m, x) ==
    CASE m = "ident" -> [ret |-> x, raised |-> "none"]
      [] m = "neg" ->
            [ret |-> [shape |-> x.shape, data |-> [k \in 1..Len(x.data) |-> -x.data[k]]],
             raised |-> "none"]
      [] m = "one_channel" ->   \* a 1-channel output: needs a channel axis
            IF Len(x.shape) < 2 THEN [ret |-> NoData, raised |-> "RuntimeError"]
            ELSE [ret |-> Filled([x.shape EXCEPT ![2] = 1], 100), raised |-> "none"]
      [] m = "sum_last" ->      \* reduces the last axis to extent 1
            [ret |-> Filled([x.shape EXCEPT ![Len(x.shape)] = 1], 200),
             raised |-> "none"]
      [] OTHER -> [ret |-> NoData, raised |-> "ModuleError"]

CatDims == {-2, -1, 0, 1, 2}

\* Inputs [B], [B, C] and [B, C, H] whose elements are all different.
SkipInputs ==
    {[shape |-> sh, data |-> [k \in 1..Prod(sh) |-> k]] :
        sh \in (SeqsUpTo(1..MaxDim, 3) \ {<<>>})}

(***************************************************************************)
(* SkipConnection                                                          *)
(***************************************************************************)
SkipConnection_init(submodule, cat_dim) ==
    [submodule |-> submodule, cat_dim |-> cat_dim]

\* A plausible slip: the submodule's output comes first.
SkipConnection_forward_reversed(obj, x) ==
    LET y == Submodule(obj.submodule, x)
        c == Cat(y.ret, x, obj.cat_dim)
    IN  IF y.raised # "none"
        THEN [ret |-> NoData, raised |-> y.raised, subcalls |-> <<x>>]
        ELSE [ret |-> c.ret, raised |-> c.raised, subcalls |-> <<x>>]

SkipConnection_forward(obj, x) ==
    LET y == Submodule(obj.submodule, x)
        c == Cat(x, y.ret, obj.cat_dim)
    IN  IF y.raised # "none"
        THEN [ret |-> NoData, raised |-> y.raised, subcalls |-> <<x>>]
        ELSE [ret |-> c.ret, raised |-> c.raised, subcalls |-> <<x>>]

NoSkip == [built |-> FALSE, submodule |-> "none", cat_dim |-> 0, called |-> FALSE,
           x |-> NoData, ret |-> NoData, raised |-> "none", subcalls |-> <<>>]

\* SkipConnection(submodule, cat_dim)
SkipConstruct ==
    \E m \in Submodules, c \in CatDims :
        LET obj == SkipConnection_init(m, c)
        IN  /\ ~skip.built
            /\ skip' = [skip EXCEPT !.built = TRUE, !.submodule = obj.submodule,
                                    !.cat_dim = obj.cat_dim]
            /\ UNCHANGED <<inferer, flat, gauss>>

\* module(x)
SkipForward ==
    \E x \in SkipInputs :
        LET r == SkipConnection_forward(skip, x)
        IN  /\ skip.built
            /\ skip' = [skip EXCEPT !.called = TRUE, !.x = x, !.ret = r.ret,
                                    !.raised = r.raised, !.subcalls = r.subcalls]
            /\ UNCHANGED <<inferer, flat, gauss>>

(***************************************************************************)
(* torch.nn.functional.conv1d/2d/3d, as GaussianFilter uses them.  A tensor *)
(* is its shape, dtype and device.                                          *)
(***************************************************************************)
NoTyped == [shape |-> <<>>, dtype |-> "none", device |-> "none"]

ConvRank(conv_n) == CASE conv_n = "conv1d" -> 1 [] conv_n = "conv2d" -> 2 [] OTHER -> 3

\* conv_n(input=input, weight=weight, padding=padding, groups=groups)
ConvN(conv_n, input, weight, padding, groups) ==
    LET n   == ConvRank(conv_n)
        bad == [ret |-> NoTyped, raised |-> "RuntimeError"]
    IN  IF \/ Len(input.shape) # n + 2
           \/ Len(weight.shape) # n + 2
           \/ Len(padding) # n
        THEN bad
        ELSE IF input.dtype # weight.dtype \/ input.device # weight.device
        THEN bad
        ELSE IF \/ groups < 1
                \/ input.shape[2] % groups # 0
                \/ weight.shape[1] % groups # 0
                \/ weight.shape[2] # input.shape[2] \div groups
        THEN bad
        ELSE LET out == [i \in 1..n |->
                            input.shape[i + 2] + 2 * padding[i] - weight.shape[i + 2] + 1]
             IN  IF \E i \in 1..n : out[i] < 1 THEN bad
                 ELSE [ret |-> [shape |-> <<input.shape[1], weight.shape[1]>> \o out,
                                dtype |-> input.dtype, device |-> input.device],
                       raised |-> "none"]

(***************************************************************************)
(* GaussianFilter                                                          *)
(***************************************************************************)
Truncated == 4      \* the default of `truncated`

\* ensure_tuple_rep(sigma, n) (monai/utils/misc.py): a scalar is repeated n times.
ensure_tuple_rep(sigma, n) ==
    IF sigma.kind = "float" THEN [i \in 1..n |-> sigma.items[1]] ELSE sigma.items

\* The length of gaussian_1d(sigma, truncated) (monai/networks/layers/convutils.py).
gaussian_1d_len(sigma, truncated) == 2 * (sigma * truncated) + 1

\* same_padding(kernel_size) (monai/networks/layers/convutils.py).
same_padding(kernel_size) == (kernel_size - 1) \div 2

GaussianFilter_init(spatial_dims, sigma, truncated) ==
    LET sig    == ensure_tuple_rep(sigma, spatial_dims)
        kernel == [i \in 1..Len(sig) |->
                     [shape |-> <<gaussian_1d_len(sig[i], truncated)>>,
                      dtype |-> "float32", device |-> "cpu"]]
    IN  [spatial_dims |-> spatial_dims,
         kernel  |-> kernel,
         padding |-> [i \in 1..Len(kernel) |-> same_padding(kernel[i].shape[1])],
         conv_n  |-> <<"conv1d", "conv2d", "conv3d">>[spatial_dims]]

\* A plausible slip: the conversion is left out and x is used as given.
ToKernel_skipped(x, k) == x

\* x = torch.as_tensor(x).to(self.kernel[0]).contiguous()
ToKernel(x, k) == [x EXCEPT !.dtype = k.dtype, !.device = k.device]

\* kernel = self.kernel[d].reshape(s), s being 1 everywhere but -1 at d + 2
KernelReshaped(k, d, sp_dim) ==
    [k EXCEPT !.shape = [i \in 1..(sp_dim + 2) |-> IF i = d + 3 THEN k.shape[1] ELSE 1]]

\* kernel.repeat([chns, 1] + [1] * sp_dim)
KernelRepeated(k, chns) == [k EXCEPT !.shape[1] = @ * chns]

\* A plausible slip: the kernel's padding is applied on every spatial axis.
AxisPadding_every_axis(obj, d) ==
    [i \in 1..obj.spatial_dims |-> obj.padding[d + 1]]

\* padding = [0] * sp_dim; padding[d] = self.padding[d]
AxisPadding(obj, d) ==
    [i \in 1..obj.spatial_dims |-> IF i = d + 1 THEN obj.padding[d + 1] ELSE 0]

\* The part of _conv(input_, d) that runs before the recursive call.
ConvFrame(obj, chns, d) ==
    [d |-> d,
     kernel  |-> KernelRepeated(KernelReshaped(obj.kernel[d + 1], d, obj.spatial_dims), chns),
     padding |-> AxisPadding(obj, d)]

\* The filters built and the tensors given to forward.
SpatialDims == {1, 2, 3}
Sigmas ==
    {[kind |-> "float", items |-> <<v>>] : v \in {0, 1}}
        \cup {[kind |-> "tuple", items |-> <<0, 1>>],
              [kind |-> "tuple", items |-> <<1, 0, 1>>]}
ModuleTypes == {"float32", "float64"}
Devices     == {"cpu", "cuda"}
GaussInputs ==
    {[shape |-> <<1, c>> \o sp, dtype |-> t, device |-> dev] :
        c \in {1, 2}, sp \in {<<3>>, <<2, 3>>, <<2, 2, 3>>},
        t \in {"float32", "float64", "int64"}, dev \in Devices}

NoFilter == [built |-> FALSE, spatial_dims |-> 0, kernel |-> <<>>, padding |-> <<>>,
             conv_n |-> "none"]
NoFwd == [pc |-> "idle", x |-> NoTyped, to |-> NoTyped, chns |-> 0, cur |-> NoTyped,
          d |-> 0, stack |-> <<>>, convs |-> <<>>, ret |-> NoTyped, raised |-> "none"]

\* GaussianFilter(spatial_dims, sigma)
GaussConstruct ==
    \E n \in SpatialDims, sigma \in Sigmas :
        /\ ~gf.built
        /\ sigma.kind = "tuple" => Len(sigma.items) = n
        /\ gf' = [built |-> TRUE] @@ GaussianFilter_init(n, sigma, Truncated)
        /\ UNCHANGED <<inferer, flat, skip, fwd>>

\* module.to(dtype, device) (inherited from nn.Module): every registered
\* parameter, so every kernel, is converted in place.
GaussTo ==
    \E t \in ModuleTypes, dev \in Devices :
        /\ gf.built
        /\ fwd.pc \in {"idle", "done"}
        /\ gf' = [gf EXCEPT !.kernel =
                    [i \in 1..Len(gf.kernel) |->
                        [gf.kernel[i] EXCEPT !.dtype = t, !.device = dev]]]
        /\ UNCHANGED <<inferer, flat, skip, fwd>>

\* forward(x), lines 64-66 and the call _conv(x, sp_dim - 1)
GaussForward ==
    \E x \in GaussInputs :
        /\ gf.built
        /\ fwd.pc \in {"idle", "done"}
        /\ fwd' = [NoFwd EXCEPT !.pc = "descend", !.x = x, !.to = gf.kernel[1],
                                !.chns = x.shape[2],
                                !.cur = ToKernel(x, gf.kernel[1]),
                                !.d = gf.spatial_dims - 1]
        /\ UNCHANGED <<inferer, flat, skip, gf>>

\* _conv(input_, d) is entered: it returns input_ when d < 0, else it builds
\* its kernel and padding and calls _conv(input_, d - 1) for its input.
ConvEnter ==
    /\ fwd.pc = "descend"
    /\ IF fwd.d < 0
       THEN fwd' = [fwd EXCEPT !.pc = "ascend"]
       ELSE fwd' = [fwd EXCEPT !.stack = Append(@, ConvFrame(gf, fwd.chns, fwd.d)),
                               !.d = @ - 1]
    /\ UNCHANGED <<inferer, flat, skip, gf>>

\* The innermost pending _conv gets its input and runs conv_n; the outermost
\* one's result is what forward returns.
ConvReturn ==
    /\ fwd.pc = "ascend"
    /\ IF fwd.stack = <<>>
       THEN fwd' = [fwd EXCEPT !.pc = "done", !.ret = fwd.cur]
       ELSE LET f == fwd.stack[Len(fwd.stack)]
                r == ConvN(gf.conv_n, fwd.cur, f.kernel, f.padding, fwd.chns)
                c == [d |-> f.d, conv_n |-> gf.conv_n, input |-> fwd.cur,
                      weight |-> f.kernel, padding |-> f.padding,
                      groups |-> fwd.chns, out |-> r.ret]
            IN  IF r.raised # "none"
                THEN fwd' = [fwd EXCEPT !.pc = "done", !.raised = r.raised,
                                        !.stack = <<>>, !.convs = Append(@, c)]
                ELSE fwd' = [fwd EXCEPT !.cur = r.ret, !.convs = Append(@, c),
                                        !.stack = SubSeq(@, 1, Len(@) - 1)]
    /\ UNCHANGED <<inferer, flat, skip, gf>>

(***************************************************************************)
(* The specifications.                                                     *)
(***************************************************************************)
Init ==
    /\ InitInferer
    /\ flat = NoFlat
    /\ skip = NoSkip
    /\ gf = NoFilter
    /\ fwd = NoFwd

NextSliding == Construct \/ SlidingCall

Spec == Init /\ [][NextSliding]_vars

NextRegular == RegularCall

SpecRegular == Init /\ [][NextRegular]_vars

NextFlatten == FlattenForward

SpecFlatten == Init /\ [][NextFlatten]_vars

NextSkip == SkipConstruct \/ SkipForward

SpecSkip == Init /\ [][NextSkip]_vars

NextGauss == GaussConstruct \/ GaussTo \/ GaussForward \/ ConvEnter \/ ConvReturn

SpecGauss == Init /\ [][NextGauss]_vars

(***************************************************************************)
(* Properties of the inferers.                                             *)
(***************************************************************************)
DirectResult == RegularInferer_call(last.inputs, last.network)

\* C1: RegularInferer.__call__(X, M) invokes M exactly once, with X as its only
\* argument, returns exactly what M(X) returns and raises exactly what it raises.
C1_RegularReturnsModelOutput ==
    last.op = "regular" =>
        /\ last.netcalls = <<[net |-> last.network, arg |-> last.inputs]>>
        /\ last.ret = Network(last.network, last.inputs).ret
        /\ last.raised = Network(last.network, last.inputs).raised

C1_Witness ==
    /\ last.op = "regular"
    /\ last.network = "conv"
    /\ last.raised = "none"
    /\ last.ret.val = <<"conv", "y">>

\* C2: a roi_size that is neither a list nor a tuple makes the constructor raise
\* before any attribute is stored; no instance is handed out, so no inference
\* call is made on it and no model is invoked.
C2_NonSequenceRejected ==
    (ctor.called /\ ~isinstance(ctor.roi_size, {"list", "tuple"})) =>
        /\ ctor.raised = "AssertionError"
        /\ self.attrs = {}
        /\ ~ref
        /\ last = NoCall

C2_Witness ==
    /\ ctor.called
    /\ ctor.roi_size.kind = "int"
    /\ ctor.raised = "AssertionError"

\* The window fits the input: one positive extent per spatial axis, none larger
\* than the input's.
WindowFits(roi, x) ==
    /\ Len(roi) = Len(Spatial(x))
    /\ \A i \in 1..Len(roi) : 1 <= roi[i] /\ roi[i] <= Spatial(x)[i]

C6_WrongRankNeverCalled ==
    last.op = "sliding" => Len(self.roi_size.items) = Len(Spatial(last.inputs))

\* C6, amended: the constructor accepts every list or tuple whatever its length
\* and stores it as given; a roi_size whose length differs from the number of
\* spatial axes of the input reaches __call__, which hands it on unchanged.
C6_RankCheckedOnlyAtCall ==
    /\ (ctor.called /\ isinstance(ctor.roi_size, {"list", "tuple"})) =>
            /\ ref
            /\ ctor.raised = "none"
            /\ self.roi_size = ctor.roi_size
    /\ (last.op = "sliding"
            /\ Len(self.roi_size.items) # Len(Spatial(last.inputs))) =>
            last.swargs[2] = ctor.roi_size

C6_Witness ==
    /\ last.op = "sliding"
    /\ self.roi_size = PyList(<<2>>)
    /\ Len(Spatial(last.inputs)) = 2

\* C7 as stated: every constructed instance holds a non-empty roi_size of
\* positive sizes.
C7_RoiNonEmptyPositive ==
    ref =>
        /\ Len(self.roi_size.items) > 0
        /\ \A i \in 1..Len(self.roi_size.items) : self.roi_size.items[i] > 0

\* C9: __call__ leaves the four attributes as the constructor stored them, and
\* hands sliding_window_inference the call's inputs and network and the four
\* attributes, each in its own position, whatever the calls before it were.
C9_CallKeepsConfiguration ==
    /\ ref =>
            /\ self.attrs = {"roi_size", "sw_batch_size", "overlap", "blend_mode"}
            /\ self.roi_size = ctor.roi_size
            /\ self.sw_batch_size = ctor.sw_batch_size
            /\ self.overlap = ctor.overlap
            /\ self.blend_mode = ctor.blend_mode
    /\ last.op = "sliding" =>
            /\ last.before = self
            /\ last.swargs = <<last.inputs, ctor.roi_size, ctor.sw_batch_size,
                               last.network, ctor.overlap, ctor.blend_mode>>

C9_Witness ==
    /\ last.op = "sliding"
    /\ last.raised = "ModelError"
    /\ ctor.sw_batch_size = 2
    /\ ctor.overlap = 50
    /\ ctor.blend_mode = "gaussian"

(***************************************************************************)
(* Properties of the layers.                                               *)
(***************************************************************************)
\* C4 as stated: for every input of shape [B, d1, d2, ...] Flatten.forward
\* returns, without failing, a tensor of shape [B, d1*d2*...].
C4_FlattenNeverFails ==
    (flat.called /\ Len(flat.x.shape) >= 1) =>
        /\ flat.raised = "none"
        /\ flat.ret.shape = <<flat.x.shape[1], Prod(Tail(flat.x.shape))>>

\* The submodule's output (when it returns one) and the axis cat_dim names.
SkipY == Submodule(skip.submodule, skip.x).ret
SkipAxis == IF skip.cat_dim < 0 THEN skip.cat_dim + Len(skip.x.shape) + 1
            ELSE skip.cat_dim + 1

\* The submodule returns a tensor that agrees with x on every axis other than
\* cat_dim, and cat_dim names an axis of x.
SkipAgrees ==
    /\ skip.called
    /\ Submodule(skip.submodule, skip.x).raised = "none"
    /\ SkipAxis \in 1..Len(skip.x.shape)
    /\ Len(SkipY.shape) = Len(skip.x.shape)
    /\ \A i \in 1..Len(skip.x.shape) : i # SkipAxis => SkipY.shape[i] = skip.x.shape[i]

\* C5: when the submodule's output agrees with x on every axis other than
\* cat_dim, forward returns a tensor whose extent along cat_dim is the sum of
\* the two extents, whose other extents are those of x, and which holds x first
\* and the submodule's output after it along cat_dim; the submodule is applied
\* once, to x.
C5_SkipConcatenates ==
    SkipAgrees =>
        /\ skip.raised = "none"
        /\ Len(skip.ret.shape) = Len(skip.x.shape)
        /\ \A i \in 1..Len(skip.x.shape) :
              skip.ret.shape[i] = IF i = SkipAxis
                                  THEN skip.x.shape[i] + SkipY.shape[i]
                                  ELSE skip.x.shape[i]
        /\ Len(skip.ret.data) = Prod(skip.ret.shape)
        /\ \A k \in 1..Len(skip.x.data) :
              LET idx == Unravel(k - 1, skip.x.shape)
              IN  At(skip.ret, idx) = skip.x.data[k]
        /\ \A k \in 1..Len(SkipY.data) :
              LET idx == Unravel(k - 1, SkipY.shape)
              IN  At(skip.ret, [idx EXCEPT ![SkipAxis] = @ + skip.x.shape[SkipAxis]])
                      = SkipY.data[k]
        /\ skip.subcalls = <<skip.x>>

C5_Witness ==
    /\ SkipAgrees
    /\ skip.submodule = "one_channel"
    /\ skip.cat_dim = 1
    /\ skip.x.shape = <<2, 2, 2>>
    /\ skip.ret.shape = <<2, 3, 2>>

(***************************************************************************)
(* Properties of GaussianFilter.forward.                                   *)
(***************************************************************************)
\* The input has the rank the filter was built for: [B, C] and spatial_dims axes.
RankFits == Len(fwd.x.shape) = gf.spatial_dims + 2

\* C8 as stated: the convolution is carried out, and the output produced, in
\* the device and dtype of the input.
C8_OutputInInputType ==
    (fwd.pc = "done" /\ fwd.raised = "none") =>
        /\ fwd.ret.dtype = fwd.x.dtype
        /\ fwd.ret.device = fwd.x.device

\* C8, amended: at call time the input is converted to the device and dtype of
\* the filter's first kernel (the kernels are not converted), so that every
\* convolution is carried out, and the output produced, in the kernels' device
\* and dtype, whatever those of the input are.
C8_OutputInKernelType ==
    /\ \A i \in 1..Len(fwd.convs) :
          /\ fwd.convs[i].input.dtype = fwd.to.dtype
          /\ fwd.convs[i].input.device = fwd.to.device
          /\ fwd.convs[i].weight.dtype = fwd.to.dtype
          /\ fwd.convs[i].weight.device = fwd.to.device
    /\ (fwd.pc = "done" /\ RankFits) =>
          /\ fwd.raised = "none"
          /\ fwd.ret.dtype = fwd.to.dtype
          /\ fwd.ret.device = fwd.to.device
    /\ fwd.pc \in {"descend", "ascend"} => fwd.to = gf.kernel[1]

C8_Witness ==
    /\ fwd.pc = "done"
    /\ fwd.raised = "none"
    /\ fwd.x.dtype = "int64"
    /\ fwd.x.device = "cpu"
    /\ fwd.ret.dtype = "float64"
    /\ fwd.ret.device = "cuda"

\* The convolutions made so far are those of axes 0, 1, ... in this order, each
\* on the result of the one before, with kernel d along tensor axis d + 2 only,
\* one copy per channel, groups = channels, and padding on spatial axis d only.
ConvsInAxisOrder ==
    \A i \in 1..Len(fwd.convs) :
        LET c == fwd.convs[i]
        IN  /\ c.d = i - 1
            /\ c.input = IF i = 1 THEN ToKernel(fwd.x, fwd.to) ELSE fwd.convs[i - 1].out
            /\ c.weight.shape =
                  [j \in 1..(gf.spatial_dims + 2) |->
                      IF j = 1 THEN fwd.chns
                      ELSE IF j = i + 2 THEN gf.kernel[i].shape[1] ELSE 1]
            /\ c.groups = fwd.chns
            /\ c.padding = [j \in 1..gf.spatial_dims |->
                              IF j = i THEN gf.padding[i] ELSE 0]

AllAxesConvolved ==
    (fwd.pc = "done" /\ RankFits) =>
        /\ fwd.raised = "none"
        /\ Len(fwd.convs) = gf.spatial_dims
        /\ fwd.ret = fwd.convs[gf.spatial_dims].out
        /\ fwd.ret.shape = fwd.x.shape

\* C10: for spatial_dims n in {1, 2, 3} one forward call performs exactly n
\* convolutions, one per spatial axis in increasing order, each on the previous
\* one's result, with kernel d laid along axis d + 2 only, replicated per
\* channel, groups equal to the channel count and padding on axis d only; and no
\* step of the call changes the filter's kernels or padding.
C10_OneConvolutionPerAxisInOrder ==
    /\ [](fwd.pc \in {"ascend", "done"} => ConvsInAxisOrder)
    /\ []AllAxesConvolved
    /\ [][fwd' # fwd => gf' = gf]_vars

C10_Witness ==
    /\ fwd.pc = "done"
    /\ fwd.raised = "none"
    /\ gf.spatial_dims = 3
    /\ Len(fwd.convs) = 3
    /\ fwd.chns = 2
    /\ gf.padding = <<4, 0, 4>>

====
